---- MODULE Spec2Model ----
(***************************************************************************)
(* QP-Segregate: the ingestion-and-classification pipeline.                *)
(*                                                                         *)
(* The model follows backend/app/api/admin.py (upload_file,                *)
(* submit_metadata, get_processing_status, retry_processing) and           *)
(* backend/app/tasks/processing.py (process_question_paper and the stage   *)
(* functions it calls).  The relational database is modelled at the        *)
(* granularity of commits: every action contains at most one db.commit(),  *)
(* so every state of the model is a state another session can read.        *)
(*                                                                         *)
(* Confidence values are kept as integers in hundredths (0.7 is 70).       *)
(***************************************************************************)
EXTENDS Integers, Sequences, FiniteSets, TLC

\* ------------------------------------------------------------------------
\* Bounds of the model
\* ------------------------------------------------------------------------
\* number of distinct uploads (each becomes at most one QuestionPaper row)
MaxPapers == 1
\* number of Celery tasks retry_processing can queue over a behaviour
MaxTasks == 1
\* number of uploads where several papers are submitted
MaxUploads == 2
\* largest number of question records the extraction service returns
MaxQ == 2

Papers == 1 .. MaxPapers
Tasks == 1 .. MaxTasks

\* A run is either the synchronous body of submit_metadata for a paper or a
\* Celery task process_question_paper queued by retry_processing.
Procs == ({"sync"} \X Papers) \cup ({"celery"} \X Tasks)

NULL == "NULL"

\* ------------------------------------------------------------------------
\* Program constants
\* ------------------------------------------------------------------------
UPLOADED == "UPLOADED"
METADATA_PENDING == "METADATA_PENDING"
PROCESSING == "PROCESSING"
COMPLETED == "COMPLETED"
FAILED == "FAILED"
\* no QuestionPaper row exists yet for the upload
NO_ROW == "NO_ROW"

ProcessingStatus == {UPLOADED, METADATA_PENDING, PROCESSING, COMPLETED, FAILED}

\* classification_confidence < 0.7 gives LOW_CONFIDENCE
LowConfidenceCutoff == 70

\* what the classification service may answer for one question: no unit, a
\* unit of the course with a low or a high confidence, or a unit id that is
\* not one of the course's units
LLMEntries ==
    { [unit_id |-> NULL, confidence |-> 0],
      [unit_id |-> "U1", confidence |-> 50],
      [unit_id |-> "U1", confidence |-> 90],
      [unit_id |-> "U9", confidence |-> 90] }

VARIABLES
    temp,           \* uploads whose file lies in tmp/uploads
    paper,          \* QuestionPaper rows (committed), by paper id
    questions,      \* committed Question rows, in primary-key order
    review_queue,   \* committed ReviewQueue rows
    proc            \* the runs: program counter and locals

vars == <<temp, paper, questions, review_queue, proc>>

\* ------------------------------------------------------------------------
\* Rows and locals
\* ------------------------------------------------------------------------
NoPaper ==
    [ processing_status |-> NO_ROW,
      processing_progress |-> 0,
      total_questions_extracted |-> 0,
      questions_in_review |-> 0 ]

\* a paper row created without a status, which takes the column default
NewPaperDefaultStatus ==
    [ processing_status |-> UPLOADED,
      processing_progress |-> 0,
      total_questions_extracted |-> 0,
      questions_in_review |-> 0 ]

\* QuestionPaper(...) as submit_metadata creates it; the column defaults give
\* progress 0 and both counters 0.
NewPaper ==
    [ processing_status |-> METADATA_PENDING,
      processing_progress |-> 0,
      total_questions_extracted |-> 0,
      questions_in_review |-> 0 ]

\* the Course rows; courses.py stores the code in upper case (line 128)
Courses == {"CS301"}

\* the course codes a request may carry
CourseCodes == {"CS301", "cs301"}

\* str.upper() on them
Upper(course_code) == IF course_code = "cs301" THEN "CS301" ELSE course_code

\* the CourseUnit rows of the database: an active and a retired unit of the
\* course, and a unit of another course; topics holds the parsed topic list
CourseUnitRows ==
    { [ unit_id |-> "U1", course_code |-> "CS301", is_active |-> TRUE,
        unit_name |-> "Unit 1", topics |-> <<"Sorting", "Graphs">> ],
      [ unit_id |-> "U2", course_code |-> "CS301", is_active |-> FALSE,
        unit_name |-> "Unit 2", topics |-> <<"Hashing">> ],
      [ unit_id |-> "U3", course_code |-> "MA201", is_active |-> TRUE,
        unit_name |-> "Unit 3", topics |-> <<"Sorting", "Matrices">> ] }

\* the units of the course, retired ones included
load_syllabusAnyUnit(course_code, unit_rows) ==
    { unit \in unit_rows : unit.course_code = Upper(course_code) }

\* LLMClassificationService._load_syllabus: the active units of the course,
\* whose code is upper-cased for the query; no unit gives None, which like
\* an empty unit list is "no syllabus" to the caller
load_syllabus(course_code, unit_rows) ==
    { unit \in unit_rows :
        unit.course_code = Upper(course_code) /\ unit.is_active }

\* the active CourseUnit rows of the course (unit ids)
ActiveUnits == { unit.unit_id : unit \in load_syllabus("CS301", CourseUnitRows) }

\* dict.get(key, default)
Get(d, key, default) == IF key \in DOMAIN d THEN d[key] ELSE default

\* submit_metadata, lines 378-389: the row takes course_code as the request
\* spells it; a missing exam type (syllabus) is stored as SEE
PaperRow(request) ==
    [ course_code |-> request.course_code,
      exam_type |-> IF request.exam_type = NULL THEN "SEE" ELSE request.exam_type,
      exam_date |-> request.exam_date ] @@ NewPaper

\* the request of the single upload: its course and exam date are fixed
SingleRequest(file_type, has_exam_type) ==
    [ file_type |-> file_type,
      course_code |-> "CS301",
      exam_type |-> IF has_exam_type THEN "SEE" ELSE NULL,
      exam_date |-> "2024-05-01" ]

IdleProc ==
    [ pc |-> "idle", paper_id |-> 0, file_type |-> "none",
      questions |-> <<>>, exc |-> "" ]

QuestionsOf(p) == { i \in 1 .. Len(questions) : questions[i].paper_id = p }

ReviewsOf(p) ==
    { j \in 1 .. Len(review_queue) :
        \E i \in QuestionsOf(p) :
            review_queue[j].question_id = questions[i].question_id }


\* ------------------------------------------------------------------------
\* Stage functions (backend/app/services, backend/app/tasks/processing.py)
\* ------------------------------------------------------------------------
\* labels the extraction service gives the questions of a document
QuestionNumbers == <<"1", "2.a", "2.b", "3", "4">>

\* the text of each of them; the same document gives the same texts
QuestionTexts == <<"T1", "T2", "T3", "T4", "T5">>

\* LLMExtractionService._validate_question: a record that passes validation
\* carries question_number and a non-empty question_text.
ValidatedQuestion(i) ==
    [ question_number |-> QuestionNumbers[i], question_text |-> QuestionTexts[i] ]

\* a document of n questions, every one of them well formed
ExtractedQuestions(n) == [ i \in 1 .. n |-> ValidatedQuestion(i) ]

\* The records of the "questions" array in the answer of the extraction
\* service: a well-formed record, one whose question_text is blank, and one
\* without question_text.
RecordKinds == {"ok", "blank", "untexted"}

LLMRecord(i, kind) ==
    IF kind = "ok" THEN ValidatedQuestion(i)
    ELSE IF kind = "blank"
         THEN [ question_number |-> QuestionNumbers[i], question_text |-> "" ]
         ELSE [ question_number |-> QuestionNumbers[i] ]

\* LLMExtractionService._validate_question: does the record survive?
ValidRecord(question) ==
    /\ "question_number" \in DOMAIN question
    /\ "question_text" \in DOMAIN question
    /\ question.question_text # ""

\* LLMExtractionService._parse_llm_response, lines 133-147: the records that
\* fail validation are dropped and the rest returned, be it none at all
ParseLLMResponse(records) == SelectSeq(records, ValidRecord)

\* the question as it is returned when nothing was assigned
Unclassified(question) ==
    [ unit_id |-> NULL, unit_name |-> NULL, topic_tags |-> <<>>,
      classification_confidence |-> 0 ] @@ question

\* the topic tags of the entry are taken as they are
ValidTopicTagsUnfiltered(topic_tags, valid_topics) == topic_tags

\* line 244: the topic tags of the entry that are topics of the unit
ValidTopicTags(topic_tags, valid_topics) ==
    SelectSeq(topic_tags,
              LAMBDA tag : \E k \in 1 .. Len(valid_topics) : valid_topics[k] = tag)

\* LLMClassificationService._apply_classifications, for one question
\* (lines 233-254): the entry's unit_id, topic_tags and confidence are read
\* with dict.get; an entry whose unit_id is not a unit of the syllabus is
\* replaced by no unit, no tags and confidence 0.
ApplyClassification(question, classification, syllabus) ==
    LET unit_id == Get(classification, "unit_id", NULL)
        units == { unit \in syllabus : unit.unit_id = unit_id }
    IN
    IF unit_id # NULL /\ units # {}
    THEN LET unit == CHOOSE u \in units : TRUE IN
         [ unit_id |-> unit_id,
           unit_name |-> unit.unit_name,
           topic_tags |-> ValidTopicTags(Get(classification, "topic_tags", <<>>),
                                         unit.topics),
           classification_confidence |-> Get(classification, "confidence", 0) ]
         @@ question
    ELSE Unclassified(question)

\* classifications.get(i, {}) of line 231: the entry of a question, or the
\* empty dict when the answer has none for it
NoEntry == [ key \in {} |-> NULL ]

ApplyClassifications(question_list, classifications, syllabus) ==
    [ i \in 1 .. Len(question_list) |->
        ApplyClassification(question_list[i],
                            Get(classifications, i, NoEntry), syllabus) ]

\* LLMClassificationService.classify_questions_with_llm once the service has
\* answered: without a syllabus (lines 55-62) every question is returned
\* unclassified and the service is not asked at all
classify_questions_with_llm(question_list, course_code, unit_rows, classifications) ==
    LET syllabus == load_syllabus(course_code, unit_rows) IN
    IF syllabus = {}
    THEN [ i \in 1 .. Len(question_list) |-> Unclassified(question_list[i]) ]
    ELSE ApplyClassifications(question_list, classifications, syllabus)

\* duplicate detection by similarity: a question whose text a stored
\* canonical question already has becomes a variant of that question
detect_duplicatesBySimilarity(question_list) ==
    [ i \in 1 .. Len(question_list) |->
        LET same == { k \in 1 .. Len(questions) :
                        /\ questions[k].is_canonical
                        /\ questions[k].question_text = question_list[i].question_text }
        IN
        IF same = {}
        THEN [ is_canonical |-> TRUE, parent_question_id |-> NULL,
               similarity_score |-> NULL ] @@ question_list[i]
        ELSE [ is_canonical |-> FALSE,
               parent_question_id |->
                   questions[CHOOSE k \in same : \A m \in same : k <= m].question_id,
               similarity_score |-> 100 ] @@ question_list[i] ]

\* detect_duplicates: every question is marked canonical.
detect_duplicates(question_list) ==
    [ i \in 1 .. Len(question_list) |->
        [ is_canonical |-> TRUE, parent_question_id |-> NULL,
          similarity_score |-> NULL ] @@ question_list[i] ]

\* the cutoff taken inclusively: a confidence of exactly 0.7 counts as low
IssueTypeInclusive(question_data) ==
    IF question_data.unit_id = NULL THEN "AMBIGUOUS_UNIT"
    ELSE IF question_data.classification_confidence <= LowConfidenceCutoff
         THEN "LOW_CONFIDENCE"
         ELSE "NEEDS_REVIEW"

\* save_questions, lines 329-338: the issue type and priority of the entry
IssueType(question_data) ==
    IF question_data.unit_id = NULL THEN "AMBIGUOUS_UNIT"
    ELSE IF question_data.classification_confidence < LowConfidenceCutoff
         THEN "LOW_CONFIDENCE"
         ELSE "NEEDS_REVIEW"

Priority(question_data) ==
    IF question_data.unit_id = NULL THEN 1
    ELSE IF question_data.classification_confidence < LowConfidenceCutoff
         THEN 2
         ELSE 3

\* The session of one save_questions call: the rows added and flushed but
\* not committed, the two counters, and whether the transaction is still
\* usable.
NewSession ==
    [ new_questions |-> <<>>, new_reviews |-> <<>>,
      saved_count |-> 0, review_count |-> 0, active |-> TRUE ]

\* the failed flush is swallowed and the session stays usable
FlushFailedKeepsSession(session) == session

\* db.flush() raised inside the per-question try (line 320): the session
\* has rolled its transaction back, which discards everything flushed so
\* far, and refuses further work until rollback(); the except of line 374
\* logs and goes on with the next question.
FlushFailed(session) ==
    [ session EXCEPT !.active = FALSE,
                     !.new_questions = <<>>, !.new_reviews = <<>> ]

\* lines 281-284: None unless the record has a non-empty tag list, else the
\* JSON text of the list; the column value is a sequence that is empty for
\* None and holds the one list otherwise
topic_tags_json(question_data) ==
    IF Get(question_data, "topic_tags", <<>>) = <<>> THEN <<>>
    ELSE << question_data.topic_tags >>

\* the row is written as a variant although the record names no parent
QuestionRowAsVariant(question_data, paper_id) ==
    [ paper_id |-> paper_id,
      course_code |-> paper[paper_id].course_code,
      question_number |-> question_data.question_number,
      question_text |-> question_data.question_text,
      unit_id |-> question_data.unit_id,
      classification_confidence |-> question_data.classification_confidence,
      is_canonical |-> FALSE,
      parent_question_id |-> question_data.parent_question_id,
      similarity_score |-> question_data.similarity_score,
      topic_tags |-> topic_tags_json(question_data),
      is_reviewed |-> FALSE,
      review_status |-> "PENDING" ]

\* Question(...) of lines 296-317
QuestionRow(question_data, paper_id) ==
    [ paper_id |-> paper_id,
      course_code |-> paper[paper_id].course_code,
      question_number |-> question_data.question_number,
      question_text |-> question_data.question_text,
      unit_id |-> question_data.unit_id,
      classification_confidence |-> question_data.classification_confidence,
      is_canonical |-> question_data.is_canonical,
      parent_question_id |-> question_data.parent_question_id,
      similarity_score |-> question_data.similarity_score,
      topic_tags |-> topic_tags_json(question_data),
      is_reviewed |-> FALSE,
      review_status |-> "PENDING" ]

\* ReviewQueue(...) of lines 340-353; of the suggested correction the unit
\* and the topic tags are kept
ReviewRow(question_data) ==
    [ issue_type |-> IssueType(question_data),
      suggested_correction |->
          [ unit_id |-> question_data.unit_id,
            topic_tags |-> Get(question_data, "topic_tags", <<>>) ],
      priority |-> Priority(question_data),
      status |-> "PENDING" ]

\* only the questions in doubt are queued: one that has a unit and a
\* confidence of 0.7 or more gets no review entry
AddQuestionInDoubt(session, question_data, paper_id) ==
    [ session EXCEPT
        !.new_questions = Append(@, QuestionRow(question_data, paper_id)),
        !.new_reviews =
            IF IssueType(question_data) = "NEEDS_REVIEW" THEN @
            ELSE Append(@, ReviewRow(question_data)),
        !.saved_count = @ + 1,
        !.review_count = @ + 1 ]

\* lines 296-356 for one question whose flush succeeds
AddQuestion(session, question_data, paper_id) ==
    [ session EXCEPT
        !.new_questions = Append(@, QuestionRow(question_data, paper_id)),
        !.new_reviews = Append(@, ReviewRow(question_data)),
        !.saved_count = @ + 1,
        !.review_count = @ + 1 ]

\* the loop of save_questions (lines 280-376); fail_at is the first question
\* whose flush the database rejects (0: none)
RECURSIVE SaveLoop(_, _, _, _, _)
SaveLoop(question_list, paper_id, idx, fail_at, session) ==
    IF idx > Len(question_list) THEN session
    ELSE LET question_data == question_list[idx] IN
         IF \/ "question_number" \notin DOMAIN question_data
            \/ "question_text" \notin DOMAIN question_data
         THEN SaveLoop(question_list, paper_id, idx + 1, fail_at, session)
         ELSE IF session.active /\ idx # fail_at
         THEN SaveLoop(question_list, paper_id, idx + 1, fail_at,
                       AddQuestion(session, question_data, paper_id))
         ELSE SaveLoop(question_list, paper_id, idx + 1, fail_at,
                       FlushFailed(session))

\* the serial primary keys the commit makes visible
WithIds(rows, first) ==
    [ i \in 1 .. Len(rows) |-> [ question_id |-> first + i ] @@ rows[i] ]

\* get_processing_status: the response built from the paper row; errors is
\* never passed and keeps its default.
get_processing_status(p) ==
    [ paper_id |-> p,
      status |-> paper[p].processing_status,
      progress |-> paper[p].processing_progress,
      questions_extracted |-> paper[p].total_questions_extracted,
      errors |-> <<>> ]

\* a start that is also accepted on a FAILED paper
RetryAcceptsFailed(status) == status \in {METADATA_PENDING, FAILED}

\* retry_processing, line 536: the statuses it accepts
RetryAccepts(status) == status = METADATA_PENDING

\* ------------------------------------------------------------------------
\* Initial state: empty database, nothing uploaded, no run
\* ------------------------------------------------------------------------
Init ==
    /\ temp = {}
    /\ paper = [ p \in Papers |-> NoPaper ]
    /\ questions = <<>>
    /\ review_queue = <<>>
    /\ proc = [ self \in Procs |-> IdleProc ]

IsSync(self) == self[1] = "sync"

\* a commit of the run's session that changes some columns of its paper row
CommitPaper(p, changes) == paper' = [ paper EXCEPT ![p] = changes @@ @ ]

\* the checkpoint submit_metadata commits before the next stage
\* (paper.processing_progress = n; db.commit()); the Celery task reports its
\* checkpoints with update_state only and leaves the row alone.
Checkpoint(self, progress) ==
    IF IsSync(self)
    THEN CommitPaper(proc[self].paper_id, [ processing_progress |-> progress ])
    ELSE UNCHANGED paper

\* the exception of a stage is logged and the run goes on to persistence
RaiseContinues(self, message) ==
    proc' = [ proc EXCEPT ![self].pc = "persist", ![self].exc = message ]

\* a stage call raised: control goes to the except clause of the run
Raise(self, message) ==
    proc' = [ proc EXCEPT ![self].pc = "except", ![self].exc = message ]

\* ------------------------------------------------------------------------
\* admin.py: upload_file, submit_metadata, retry_processing
\* ------------------------------------------------------------------------
\* upload_file: the file is written to tmp/uploads under a fresh upload id
UploadFile(u) ==
    /\ u \notin temp
    /\ paper[u].processing_status = NO_ROW
    /\ temp' = temp \cup {u}
    /\ UNCHANGED <<paper, questions, review_queue, proc>>

\* submit_metadata, lines 336-393: the file is moved to storage/papers, then
\* a question paper without exam type is refused, otherwise the paper row is
\* created in METADATA_PENDING and committed.  With a single upload the
\* duplicate check of lines 341-353 finds no row.
SubmitMetadata(u, file_type, has_exam_type) ==
    /\ u \in temp
    /\ temp' = temp \ {u}
    /\ IF ~has_exam_type /\ file_type = "question_paper"
       THEN UNCHANGED <<paper, proc>>
       ELSE /\ paper' = [ paper EXCEPT ![u] =
                            PaperRow(SingleRequest(file_type, has_exam_type)) ]
            /\ proc' = [ proc EXCEPT ![<<"sync", u>>] =
                          [ IdleProc EXCEPT !.pc = "created", !.paper_id = u,
                                            !.file_type = file_type ] ]
    /\ UNCHANGED <<questions, review_queue>>

\* submit_metadata, lines 397-401: a syllabus is completed at once
SubmitSyllabus(p) ==
    LET self == <<"sync", p>> IN
    /\ proc[self].pc = "created"
    /\ proc[self].file_type = "syllabus"
    /\ CommitPaper(p, [ processing_status |-> COMPLETED,
                        processing_progress |-> 100,
                        total_questions_extracted |-> 0 ])
    /\ proc' = [ proc EXCEPT ![self].pc = "done" ]
    /\ UNCHANGED <<temp, questions, review_queue>>

\* submit_metadata, lines 415-418: a question paper starts processing
SubmitStart(p) ==
    LET self == <<"sync", p>> IN
    /\ proc[self].pc = "created"
    /\ proc[self].file_type = "question_paper"
    /\ CommitPaper(p, [ processing_status |-> PROCESSING,
                        processing_progress |-> 0 ])
    /\ proc' = [ proc EXCEPT ![self].pc = "start" ]
    /\ UNCHANGED <<temp, questions, review_queue>>

\* submit_metadata, lines 420-423: checkpoint 10, conversion is entered
SubmitConvert(p) ==
    LET self == <<"sync", p>> IN
    /\ proc[self].pc = "start"
    /\ Checkpoint(self, 10)
    /\ proc' = [ proc EXCEPT ![self].pc = "convert" ]
    /\ UNCHANGED <<temp, questions, review_queue>>

IdleTasks == { t \in Tasks : proc[<<"celery", t>>].pc = "idle" }

\* retry_processing, lines 542-549, the request that is accepted:
\* process_question_paper.delay(paper_id) queues a task; the paper row is
\* not touched.
RetryQueues(p) ==
    /\ paper[p].processing_status # NO_ROW
    /\ RetryAccepts(paper[p].processing_status)
    /\ IdleTasks # {}
    /\ LET t == CHOOSE x \in IdleTasks : \A y \in IdleTasks : x <= y IN
       proc' = [ proc EXCEPT ![<<"celery", t>>] =
                  [ IdleProc EXCEPT !.pc = "queued", !.paper_id = p,
                                    !.file_type = "question_paper" ] ]
    /\ UNCHANGED <<temp, paper, questions, review_queue>>

\* a refusal that marks the paper FAILED
RetryRefusedMarksFailed(p) ==
    /\ \/ paper[p].processing_status = NO_ROW
       \/ ~RetryAccepts(paper[p].processing_status)
    /\ paper' = [ paper EXCEPT ![p].processing_status =
                    IF @ = NO_ROW THEN @ ELSE FAILED ]
    /\ UNCHANGED <<temp, questions, review_queue, proc>>

\* retry_processing, lines 532-540, the request that is refused: 404 without
\* a paper row, 400 unless the status is accepted; nothing is written.
RetryRefused(p) ==
    /\ \/ paper[p].processing_status = NO_ROW
       \/ ~RetryAccepts(paper[p].processing_status)
    /\ UNCHANGED vars

RetryProcessing(p) == RetryQueues(p) \/ RetryRefused(p)

\* ------------------------------------------------------------------------
\* processing.py: process_question_paper and the stages both runs share
\* ------------------------------------------------------------------------
\* process_question_paper, lines 73-84: a worker takes the task, the paper
\* is set to PROCESSING with progress 0, conversion is entered
TaskStart(t) ==
    LET self == <<"celery", t>> IN
    /\ proc[self].pc = "queued"
    /\ CommitPaper(proc[self].paper_id, [ processing_status |-> PROCESSING,
                                          processing_progress |-> 0 ])
    /\ proc' = [ proc EXCEPT ![self].pc = "convert" ]
    /\ UNCHANGED <<temp, questions, review_queue>>

\* convert_file_for_llm returns or raises (missing or unreadable file)
Convert(self) ==
    /\ proc[self].pc = "convert"
    /\ \/ /\ Checkpoint(self, 30)
          /\ proc' = [ proc EXCEPT ![self].pc = "extract" ]
       \/ /\ Raise(self, "File conversion failed")
          /\ UNCHANGED paper
    /\ UNCHANGED <<temp, questions, review_queue>>

\* extract_questions_with_llm: the answer of the service is parsed and the
\* validated records are returned; the call raises when the service fails or
\* its answer is not JSON of the expected form
Extract(self) ==
    /\ proc[self].pc = "extract"
    /\ \/ \E n \in 0 .. MaxQ : \E kinds \in [ 1 .. n -> RecordKinds ] :
            /\ Checkpoint(self, 50)
            /\ proc' = [ proc EXCEPT ![self].pc = "classify",
                          ![self].questions =
                              ParseLLMResponse([ i \in 1 .. n |-> LLMRecord(i, kinds[i]) ]) ]
       \/ /\ Raise(self, "LLM extraction failed")
          /\ UNCHANGED paper
    /\ UNCHANGED <<temp, questions, review_queue>>

\* classify_questions_with_llm: the service answers and its entries are
\* applied, or the call (or the parsing of its answer) raises and the
\* exception is raised again (line 95)
Classify(self) ==
    /\ proc[self].pc = "classify"
    /\ \/ \E c \in [ 1 .. Len(proc[self].questions) -> LLMEntries ] :
            /\ Checkpoint(self, 70)
            /\ proc' = [ proc EXCEPT ![self].pc = "dedup",
                           ![self].questions =
                               classify_questions_with_llm(
                                   @, paper[proc[self].paper_id].course_code,
                                   CourseUnitRows, c) ]
       \/ /\ load_syllabus(paper[proc[self].paper_id].course_code,
                            CourseUnitRows) # {}
          /\ Raise(self, "LLM classification failed")
          /\ UNCHANGED paper
    /\ UNCHANGED <<temp, questions, review_queue>>

\* detect_duplicates never raises
Deduplicate(self) ==
    /\ proc[self].pc = "dedup"
    /\ Checkpoint(self, 90)
    /\ proc' = [ proc EXCEPT ![self].pc = "persist",
                             ![self].questions = detect_duplicates(@) ]
    /\ UNCHANGED <<temp, questions, review_queue>>

\* save_questions: nothing to do for an empty list; otherwise the loop, then
\* questions_in_review and the commit (lines 379-380).  The commit raises
\* when the session is no longer usable or when the database rejects it;
\* lines 383-386 then roll back and raise again.
SaveQuestions(self) ==
    LET p == proc[self].paper_id
        question_list == proc[self].questions
    IN
    /\ proc[self].pc = "persist"
    /\ UNCHANGED temp
    /\ IF question_list = <<>>
       THEN /\ proc' = [ proc EXCEPT ![self].pc = "complete" ]
            /\ UNCHANGED <<paper, questions, review_queue>>
       ELSE \E fail_at \in 0 .. Len(question_list), commit_ok \in BOOLEAN :
            LET session == SaveLoop(question_list, p, 1, fail_at, NewSession) IN
            IF session.active /\ commit_ok
            THEN /\ questions' = questions \o
                        WithIds(session.new_questions, Len(questions))
                 /\ review_queue' = review_queue \o
                        WithIds(session.new_reviews, Len(questions))
                 /\ CommitPaper(p, [ questions_in_review |-> session.review_count ])
                 /\ proc' = [ proc EXCEPT ![self].pc = "complete" ]
            ELSE /\ Raise(self, "Error saving questions")
                 /\ UNCHANGED <<paper, questions, review_queue>>

\* the commit that reports the run complete (processing.py 105-108,
\* admin.py 455-462); when it raises, its changes are rolled back
Complete(self) ==
    /\ proc[self].pc = "complete"
    /\ \/ /\ CommitPaper(proc[self].paper_id,
                [ processing_status |-> COMPLETED,
                  processing_progress |-> 100,
                  total_questions_extracted |-> Len(proc[self].questions) ])
          /\ proc' = [ proc EXCEPT ![self].pc = "done", ![self].questions = <<>> ]
       \/ /\ Raise(self, "Database error")
          /\ UNCHANGED paper
    /\ UNCHANGED <<temp, questions, review_queue>>

\* what the except clause commits: the task sets the status only
\* (processing.py 118-119), submit_metadata also resets the progress
\* (admin.py 468-470)
FailureUpdate(self) ==
    IF IsSync(self)
    THEN [ processing_status |-> FAILED, processing_progress |-> 0 ]
    ELSE [ processing_status |-> FAILED ]

HandleException(self) ==
    /\ proc[self].pc = "except"
    /\ CommitPaper(proc[self].paper_id, FailureUpdate(self))
    /\ proc' = [ proc EXCEPT ![self].pc = "done", ![self].questions = <<>> ]
    /\ UNCHANGED <<temp, questions, review_queue>>

Next ==
    \/ \E u \in Papers : UploadFile(u)
    \/ \E u \in Papers, file_type \in {"question_paper", "syllabus"},
          has_exam_type \in BOOLEAN : SubmitMetadata(u, file_type, has_exam_type)
    \/ \E p \in Papers : SubmitSyllabus(p)
    \/ \E p \in Papers : SubmitStart(p)
    \/ \E p \in Papers : SubmitConvert(p)
    \/ \E p \in Papers : RetryProcessing(p)
    \/ \E t \in Tasks : TaskStart(t)
    \/ \E self \in Procs : Convert(self)
    \/ \E self \in Procs : Extract(self)
    \/ \E self \in Procs : Classify(self)
    \/ \E self \in Procs : Deduplicate(self)
    \/ \E self \in Procs : SaveQuestions(self)
    \/ \E self \in Procs : Complete(self)
    \/ \E self \in Procs : HandleException(self)

Spec == Init /\ [][Next]_vars

\* ------------------------------------------------------------------------
\* Calls that do not return, and the time limit of the Celery worker
\* ------------------------------------------------------------------------
\* The extraction call (llm_extraction_service.extract_questions_with_llm)
\* is made without a timeout; a call that never returns leaves the run
\* inside the stage.
ExtractBlocks(self) ==
    /\ proc[self].pc = "extract"
    /\ proc' = [ proc EXCEPT ![self].pc = "blocked" ]
    /\ UNCHANGED <<temp, paper, questions, review_queue>>

\* the same for the classification call
ClassifyBlocks(self) ==
    /\ proc[self].pc = "classify"
    /\ proc' = [ proc EXCEPT ![self].pc = "blocked" ]
    /\ UNCHANGED <<temp, paper, questions, review_queue>>

\* task_soft_time_limit (celery.py, line 26): the prefork worker raises
\* SoftTimeLimitExceeded inside a task that runs too long; the task's
\* except Exception clause catches it.  The synchronous run of
\* submit_metadata is not a task and has no such limit.
SoftTimeLimit(t) ==
    LET self == <<"celery", t>> IN
    /\ proc[self].pc = "blocked"
    /\ Raise(self, "SoftTimeLimitExceeded")
    /\ UNCHANGED <<temp, paper, questions, review_queue>>

\* one step of a run that has been created
RunStep(self) ==
    \/ (IsSync(self) /\ SubmitSyllabus(self[2]))
    \/ (IsSync(self) /\ SubmitStart(self[2]))
    \/ (IsSync(self) /\ SubmitConvert(self[2]))
    \/ (~IsSync(self) /\ TaskStart(self[2]))
    \/ Convert(self)
    \/ Extract(self)
    \/ ExtractBlocks(self)
    \/ Classify(self)
    \/ ClassifyBlocks(self)
    \/ Deduplicate(self)
    \/ SaveQuestions(self)
    \/ Complete(self)
    \/ HandleException(self)
    \/ (~IsSync(self) /\ SoftTimeLimit(self[2]))

LiveNext ==
    \/ Next
    \/ \E self \in Procs : ExtractBlocks(self)
    \/ \E self \in Procs : ClassifyBlocks(self)
    \/ \E t \in Tasks : SoftTimeLimit(t)

\* Every run that can take a step eventually takes one: the request handler
\* keeps executing, a worker takes every queued task, and the worker
\* enforces its time limit.
LiveSpec ==
    /\ Init
    /\ [][LiveNext]_vars
    /\ \A self \in Procs : WF_vars(RunStep(self))

\* ------------------------------------------------------------------------
\* The proposed pipeline: api/proposed_api.py, tasks/proposed_processing.py
\* ------------------------------------------------------------------------
\* It has its own tables (qpapers, proposed questions); in this
\* specification paper holds the QPaper rows, questions the ProposedQuestion
\* rows, and proc the tasks process_question_paper_proposed.
ProposedProcs == {"proposed"} \X Papers

\* QPaper(processing_status="UPLOADED"): the row has a status and no
\* progress or question count
NewQPaper == [ processing_status |-> UPLOADED ]

\* what classify_questions_proposed learns about one question from the
\* enhanced classification service
ProposedEntries ==
    { [unit_id |-> NULL, unit_confidence |-> 0, bloom_confidence |-> 50],
      [unit_id |-> "U1", unit_confidence |-> 40, bloom_confidence |-> 50],
      [unit_id |-> "U1", unit_confidence |-> 40, bloom_confidence |-> 70],
      [unit_id |-> "U1", unit_confidence |-> 90, bloom_confidence |-> 70] }

\* classify_questions_proposed, lines 160-190, for one question
ClassifyProposed(question, entry) ==
    [ unit_id |-> entry.unit_id,
      confidence_score |-> (entry.unit_confidence + entry.bloom_confidence) \div 2 ]
    @@ question

\* ProposedQuestion(...) of save_questions_proposed, lines 201-207
ProposedQuestionRow(question_data, paper_id) ==
    [ paper_id |-> paper_id,
      question_number |-> question_data.question_number,
      unit_id |-> question_data.unit_id,
      confidence_score |-> question_data.confidence_score ]

\* the division of line 219 is defined for a non-empty list only
AvgConfidenceDefined(question_list) == Len(question_list) # 0

ProposedInit ==
    /\ temp = {}
    /\ paper = [ p \in Papers |-> [ processing_status |-> NO_ROW ] ]
    /\ questions = <<>>
    /\ review_queue = <<>>
    /\ proc = [ self \in ProposedProcs |-> IdleProc ]

\* upload_question_paper: the QPaper row is committed and the task queued
upload_question_paper(p) ==
    /\ paper[p].processing_status = NO_ROW
    /\ paper' = [ paper EXCEPT ![p] = NewQPaper ]
    /\ proc' = [ proc EXCEPT ![<<"proposed", p>>] =
                  [ IdleProc EXCEPT !.pc = "queued", !.paper_id = p,
                                    !.file_type = "question_paper" ] ]
    /\ UNCHANGED <<temp, questions, review_queue>>

\* process_question_paper_proposed, lines 50-59
ProposedStart(self) ==
    /\ proc[self].pc = "queued"
    /\ CommitPaper(proc[self].paper_id, [ processing_status |-> PROCESSING ])
    /\ proc' = [ proc EXCEPT ![self].pc = "ocr" ]
    /\ UNCHANGED <<temp, questions, review_queue>>

\* process_ocr_proposed returns or raises (OCR, storage or MongoDB error)
process_ocr_proposed(self) ==
    /\ proc[self].pc = "ocr"
    /\ \/ proc' = [ proc EXCEPT ![self].pc = "segregate" ]
       \/ Raise(self, "OCR failed")
    /\ UNCHANGED <<temp, paper, questions, review_queue>>

\* segregate_questions_proposed: the questions found in the pages
segregate_questions_proposed(self) ==
    /\ proc[self].pc = "segregate"
    /\ \E n \in 0 .. MaxQ :
         proc' = [ proc EXCEPT ![self].pc = "classify",
                               ![self].questions = ExtractedQuestions(n) ]
    /\ UNCHANGED <<temp, paper, questions, review_queue>>

\* classify_questions_proposed
classify_questions_proposed(self) ==
    /\ proc[self].pc = "classify"
    /\ \E c \in [ 1 .. Len(proc[self].questions) -> ProposedEntries ] :
         proc' = [ proc EXCEPT ![self].pc = "save",
                     ![self].questions =
                        [ i \in 1 .. Len(@) |-> ClassifyProposed(@[i], c[i]) ] ]
    /\ UNCHANGED <<temp, paper, questions, review_queue>>

\* save_questions_proposed: the rows are added and committed (line 211);
\* a commit that raises stores nothing.  Then the metadata document is
\* built: the average of line 219 divides by len(questions), which raises
\* ZeroDivisionError for an empty list; for a non-empty list the insert
\* into MongoDB succeeds or raises.
save_questions_proposed(self) ==
    LET p == proc[self].paper_id
        question_list == proc[self].questions
        rows == [ i \in 1 .. Len(question_list) |->
                    ProposedQuestionRow(question_list[i], p) ]
    IN
    /\ proc[self].pc = "save"
    /\ UNCHANGED <<temp, paper, review_queue>>
    /\ IF ~AvgConfidenceDefined(question_list)
       THEN /\ Raise(self, "ZeroDivisionError")
            /\ UNCHANGED questions
       ELSE \E commit_ok \in BOOLEAN, mongo_ok \in BOOLEAN :
            IF ~commit_ok
            THEN /\ Raise(self, "Database error")
                 /\ UNCHANGED questions
            ELSE /\ questions' = questions \o WithIds(rows, Len(questions))
                 /\ IF mongo_ok
                    THEN proc' = [ proc EXCEPT ![self].pc = "complete" ]
                    ELSE Raise(self, "MongoDB error")

\* lines 75-76: the run is reported complete
ProposedComplete(self) ==
    /\ proc[self].pc = "complete"
    /\ CommitPaper(proc[self].paper_id, [ processing_status |-> COMPLETED ])
    /\ proc' = [ proc EXCEPT ![self].pc = "done" ]
    /\ UNCHANGED <<temp, questions, review_queue>>

\* lines 84-87: the except clause
ProposedHandleException(self) ==
    /\ proc[self].pc = "except"
    /\ CommitPaper(proc[self].paper_id, [ processing_status |-> FAILED ])
    /\ proc' = [ proc EXCEPT ![self].pc = "done" ]
    /\ UNCHANGED <<temp, questions, review_queue>>

ProposedNext ==
    \/ \E p \in Papers : upload_question_paper(p)
    \/ \E self \in ProposedProcs : ProposedStart(self)
    \/ \E self \in ProposedProcs : process_ocr_proposed(self)
    \/ \E self \in ProposedProcs : segregate_questions_proposed(self)
    \/ \E self \in ProposedProcs : classify_questions_proposed(self)
    \/ \E self \in ProposedProcs : save_questions_proposed(self)
    \/ \E self \in ProposedProcs : ProposedComplete(self)
    \/ \E self \in ProposedProcs : ProposedHandleException(self)

ProposedSpec == ProposedInit /\ [][ProposedNext]_vars

\* ------------------------------------------------------------------------
\* save_questions on its own: the classified lists it can be called with
\* ------------------------------------------------------------------------
RoutingUnits == {NULL, "U1"}

\* classification confidences around the cutoff, in hundredths
RoutingConfidences == {0, 69, 70, 71, 100}

RoutingRun == <<"sync", 1>>

\* one classified and deduplicated question record
RoutingQuestion(i, classified) ==
    [ unit_id |-> classified[1], classification_confidence |-> classified[2] ]
    @@ ValidatedQuestion(i)

\* a run of paper 1 has reached save_questions (progress 90 is committed)
\* with a list of at most MaxQ classified questions
RoutingInit ==
    /\ temp = {}
    /\ paper = [ p \in Papers |->
                   IF p = 1
                   THEN [ processing_status |-> PROCESSING,
                          processing_progress |-> 90 ]
                        @@ PaperRow(SingleRequest("question_paper", TRUE))
                   ELSE NoPaper ]
    /\ questions = <<>>
    /\ review_queue = <<>>
    /\ \E n \in 0 .. MaxQ :
         \E c \in [ 1 .. n -> RoutingUnits \X RoutingConfidences ] :
            proc = [ self \in Procs |->
                       IF self = RoutingRun
                       THEN [ IdleProc EXCEPT
                                !.pc = "persist", !.paper_id = 1,
                                !.file_type = "question_paper",
                                !.questions = detect_duplicates(
                                    [ i \in 1 .. n |-> RoutingQuestion(i, c[i]) ]) ]
                       ELSE IdleProc ]

RoutingNext ==
    \/ SaveQuestions(RoutingRun)
    \/ Complete(RoutingRun)
    \/ HandleException(RoutingRun)

RoutingSpec == RoutingInit /\ [][RoutingNext]_vars

\* ------------------------------------------------------------------------
\* Several papers: the intake of submit_metadata step by step
\* ------------------------------------------------------------------------
Uploads == 1 .. MaxUploads

UploadRuns == {"sync"} \X Uploads

\* MetadataSubmitRequest (admin.py, lines 30-37); exam_type and exam_date
\* are optional
Requests ==
    [ file_type : {"question_paper", "syllabus"},
      course_code : CourseCodes,
      exam_type : {"SEE", NULL},
      exam_date : {"2024-05-01", NULL} ]

\* line 342: when the duplicate check is made at all
DuplicateCheckApplies(request) ==
    /\ request.file_type = "question_paper"
    /\ request.exam_type # NULL
    /\ request.exam_date # NULL

\* lines 343-347: the committed rows the query finds; the course code of the
\* request is upper-cased, the column is compared as stored
ExistingPapers(request) ==
    { p \in DOMAIN paper :
        /\ paper[p].processing_status # NO_ROW
        /\ paper[p].course_code = Upper(request.course_code)
        /\ paper[p].exam_type = request.exam_type
        /\ paper[p].exam_date = request.exam_date }

MultiInit ==
    /\ temp = {}
    /\ paper = [ u \in Uploads |-> NoPaper ]
    /\ questions = <<>>
    /\ review_queue = <<>>
    /\ proc = [ self \in UploadRuns |-> IdleProc ]

\* submit_metadata, lines 336-353: the upload exists and the duplicate
\* query is run; a request that finds a row is answered 400 and nothing is
\* written.  The query and the insert of line 392 are separate statements
\* with no lock or unique constraint between them, so the request of
\* another server process can run in between.
SubmitCheck(u, request) ==
    LET self == <<"sync", u>> IN
    /\ u \in temp
    /\ proc[self].pc = "idle"
    /\ IF DuplicateCheckApplies(request) /\ ExistingPapers(request) # {}
       THEN UNCHANGED vars
       ELSE /\ proc' = [ proc EXCEPT ![self] =
                          [ request |-> request ] @@
                          [ IdleProc EXCEPT !.pc = "checked",
                                            !.file_type = request.file_type ] ]
            /\ UNCHANGED <<temp, paper, questions, review_queue>>

\* submit_metadata, lines 355-393: the file is moved; a question paper
\* without exam type is answered 400; otherwise the row is inserted and
\* committed, which the foreign key on courses.course_code rejects for a
\* code that is no course.
SubmitCreate(u) ==
    LET self == <<"sync", u>>
        request == proc[self].request
    IN
    /\ proc[self].pc = "checked"
    /\ temp' = temp \ {u}
    /\ IF \/ (request.file_type = "question_paper" /\ request.exam_type = NULL)
          \/ request.course_code \notin Courses
       THEN /\ proc' = [ proc EXCEPT ![self] = IdleProc ]
            /\ UNCHANGED paper
       ELSE /\ paper' = [ paper EXCEPT ![u] = PaperRow(request) ]
            /\ proc' = [ proc EXCEPT ![self] =
                          [ IdleProc EXCEPT !.pc = "created", !.paper_id = u,
                                            !.file_type = request.file_type ] ]
    /\ UNCHANGED <<questions, review_queue>>

MultiNext ==
    \/ \E u \in Uploads : UploadFile(u)
    \/ \E u \in Uploads, request \in Requests : SubmitCheck(u, request)
    \/ \E u \in Uploads : SubmitCreate(u)
    \/ \E u \in Uploads : SubmitSyllabus(u)
    \/ \E u \in Uploads : SubmitStart(u)
    \/ \E u \in Uploads : SubmitConvert(u)
    \/ \E self \in UploadRuns : Convert(self)
    \/ \E self \in UploadRuns : Extract(self)
    \/ \E self \in UploadRuns : Classify(self)
    \/ \E self \in UploadRuns : Deduplicate(self)
    \/ \E self \in UploadRuns : SaveQuestions(self)
    \/ \E self \in UploadRuns : Complete(self)
    \/ \E self \in UploadRuns : HandleException(self)

MultiPaperSpec == MultiInit /\ [][MultiNext]_vars

\* ------------------------------------------------------------------------
\* Reading the questions of a paper back: get_paper_questions
\* ------------------------------------------------------------------------
\* question numbers an extraction may emit, with the character codes of the
\* string ("." is 46, "0" is 48, "1" is 49, "2" is 50, "a" is 97, "b" is 98)
LabelCodes ==
    [ label \in {"1", "2", "10", "2.a", "2.b", "3"} |->
        CASE label = "1" -> <<49>>
          [] label = "2" -> <<50>>
          [] label = "10" -> <<49, 48>>
          [] label = "2.a" -> <<50, 46, 97>>
          [] label = "2.b" -> <<50, 46, 98>>
          [] label = "3" -> <<51>> ]

Labels == DOMAIN LabelCodes

\* the order of two strings, character by character
RECURSIVE CodesLess(_, _)
CodesLess(a, b) ==
    IF a = <<>> THEN b # <<>>
    ELSE IF b = <<>> THEN FALSE
    ELSE IF Head(a) # Head(b) THEN Head(a) < Head(b)
    ELSE CodesLess(Tail(a), Tail(b))

\* ORDER BY question_number: the column is a String, so the rows are
\* ordered as strings
QuestionNumberLess(row1, row2) ==
    CodesLess(LabelCodes[row1.question_number], LabelCodes[row2.question_number])

\* get_paper_questions, line 1326: the questions of the paper ordered by
\* question_number
get_paper_questions(p) ==
    SortSeq(SelectSeq(questions, LAMBDA row : row.paper_id = p),
            QuestionNumberLess)

\* a run of paper 1 has reached save_questions with the questions of an
\* extraction that emitted at most MaxQ different labels, in any order
OrderInit ==
    /\ temp = {}
    /\ paper = [ p \in Papers |->
                   IF p = 1
                   THEN [ processing_status |-> PROCESSING,
                          processing_progress |-> 90 ]
                        @@ PaperRow(SingleRequest("question_paper", TRUE))
                   ELSE NoPaper ]
    /\ questions = <<>>
    /\ review_queue = <<>>
    /\ \E n \in 0 .. MaxQ :
         \E labels \in [ 1 .. n -> Labels ] :
            /\ \A i, j \in 1 .. n : i # j => labels[i] # labels[j]
            /\ proc = [ self \in Procs |->
                         IF self = RoutingRun
                         THEN [ IdleProc EXCEPT
                                  !.pc = "persist", !.paper_id = 1,
                                  !.file_type = "question_paper",
                                  !.questions = detect_duplicates(
                                      [ i \in 1 .. n |->
                                          [ question_number |-> labels[i],
                                            question_text |-> QuestionTexts[i],
                                            unit_id |-> "U1",
                                            classification_confidence |-> 90 ] ]) ]
                         ELSE IdleProc ]

OrderSpec == OrderInit /\ [][RoutingNext]_vars

\* ------------------------------------------------------------------------
\* Properties
\* ------------------------------------------------------------------------
NumQuestions(p) == Cardinality(QuestionsOf(p))
NumReviews(p) == Cardinality(ReviewsOf(p))
StatusOf(p) == paper[p].processing_status

\* the runs of paper p that have been created
RunsOf(p) == { self \in Procs : proc[self].pc # "idle" /\ proc[self].paper_id = p }

\* C1: a paper whose status is FAILED has no Question row and no ReviewQueue
\* row committed for it.
C1_FailedCommitsNothing ==
    \A p \in Papers :
        StatusOf(p) = FAILED => QuestionsOf(p) = {} /\ ReviewsOf(p) = {}

\* C2: whenever a paper is COMPLETED, the number of its Question rows equals
\* its total_questions_extracted.
C2_CompletedCountMatches ==
    \A p \in Papers :
        StatusOf(p) = COMPLETED =>
            NumQuestions(p) = paper[p].total_questions_extracted

\* C3: persistence of one paper is atomic.  Every step leaves the Question
\* and ReviewQueue rows of a paper as they are, or adds, in one commit of a
\* run that is inside save_questions, one Question row and one ReviewQueue
\* row for every question the run extracted; and a save_questions that
\* raises leaves the paper row and both tables unchanged.
C3_AtomicPersistence ==
    [][ /\ \A p \in Papers :
            \/ /\ NumQuestions(p)' = NumQuestions(p)
               /\ NumReviews(p)' = NumReviews(p)
            \/ \E self \in Procs :
                /\ proc[self].pc = "persist"
                /\ proc[self].paper_id = p
                /\ proc'[self].pc = "complete"
                /\ NumQuestions(p)' = NumQuestions(p) + Len(proc[self].questions)
                /\ NumReviews(p)' = NumReviews(p) + Len(proc[self].questions)
        /\ \A self \in Procs :
            (proc[self].pc = "persist" /\ proc'[self].pc = "except") =>
                UNCHANGED <<paper, questions, review_queue>>
      ]_vars

\* C3 witness: save_questions raised for a document of at least two
\* questions and none of them is stored.
C3_Witness ==
    \E self \in Procs :
        /\ proc[self].pc = "except"
        /\ proc[self].exc = "Error saving questions"
        /\ Len(proc[self].questions) >= 2
        /\ QuestionsOf(proc[self].paper_id) = {}

\* C4: the questions of a paper are never stored twice: no two Question
\* rows of one paper carry the same question number.
C4_StoredOnce ==
    \A i, j \in 1 .. Len(questions) :
        (i # j /\ questions[i].paper_id = questions[j].paper_id) =>
            questions[i].question_number # questions[j].question_number

SpecifiedEdges ==
    { <<NO_ROW, UPLOADED>>, <<NO_ROW, METADATA_PENDING>>,
      <<UPLOADED, METADATA_PENDING>>, <<METADATA_PENDING, PROCESSING>>,
      <<PROCESSING, COMPLETED>>, <<PROCESSING, FAILED>>,
      <<FAILED, PROCESSING>> }

C7_ClassificationFailureDegrades ==
    \A self \in Procs :
        ~ (proc[self].pc = "except" /\ proc[self].exc = "LLM classification failed")

StageOrder == <<"convert", "extract", "classify", "dedup", "persist">>

\* C8: the stages of a run are entered in the order conversion, extraction,
\* classification, duplicate detection, persistence, each only when the
\* previous one returned; a run whose conversion or extraction raised goes
\* to its except clause and from there only to its end, committing FAILED.
C8_StageOrder ==
    [][ \A self \in Procs :
            LET a == proc[self].pc
                b == proc'[self].pc
                p == proc[self].paper_id
            IN
            a # b =>
                /\ (b = "convert") => a \in {"start", "queued"}
                /\ \A k \in 2 .. Len(StageOrder) :
                        (b = StageOrder[k]) => a = StageOrder[k - 1]
                /\ (a \in {"convert", "extract"}) =>
                        b \in {"extract", "classify", "except"}
                /\ (a = "except") => (b = "done" /\ StatusOf(p)' = FAILED)
                /\ a # "done"
      ]_vars

\* C8 witness: extraction raised, the run ended and the paper is FAILED.
C8_Witness ==
    \E self \in Procs :
        /\ proc[self].pc = "done"
        /\ proc[self].exc = "LLM extraction failed"
        /\ StatusOf(proc[self].paper_id) = FAILED

\* C9: whenever a paper is FAILED its progress is 0.
C9_FailedProgressZero ==
    \A p \in Papers :
        StatusOf(p) = FAILED => paper[p].processing_progress = 0

\* C10: for every FAILED paper the status query returns FAILED with a
\* non-empty errors list.
C10_FailedStatusHasErrors ==
    \A p \in Papers :
        StatusOf(p) = FAILED =>
            /\ get_processing_status(p).status = FAILED
            /\ Len(get_processing_status(p).errors) > 0

\* C11: every paper that enters PROCESSING eventually reaches COMPLETED or
\* FAILED, also when an extraction or classification call never returns.
C11_ProcessingSettles ==
    \A p \in Papers :
        (StatusOf(p) = PROCESSING) ~> (StatusOf(p) \in {COMPLETED, FAILED})

\* C12: a paper that is COMPLETED has all its questions persisted and its
\* count final.  The status becomes COMPLETED only in the commit of a run
\* whose questions are all stored, and that commit sets the count to their
\* number (a syllabus: no questions, count 0); and while the paper stays
\* COMPLETED no later commit adds Question rows to it or changes the count.
C12_CompletedAfterPersistence ==
    [][ \A p \in Papers :
            /\ (StatusOf(p) # COMPLETED /\ StatusOf(p)' = COMPLETED) =>
                  \E self \in RunsOf(p) :
                      /\ proc[self].pc \in {"complete", "created"}
                      /\ proc'[self].pc = "done"
                      /\ paper'[p].total_questions_extracted = Len(proc[self].questions)
                      /\ NumQuestions(p)' >= Len(proc[self].questions)
            /\ (StatusOf(p) = COMPLETED /\ StatusOf(p)' = COMPLETED) =>
                  /\ NumQuestions(p)' = NumQuestions(p)
                  /\ paper'[p].total_questions_extracted =
                        paper[p].total_questions_extracted
      ]_vars

\* C13: a document that yields zero questions is not an error, in the
\* proposed pipeline as in the others: a run that reaches persistence with
\* an empty question list stores nothing and goes on to report the paper
\* COMPLETED; it never ends in the except clause.
C13_ZeroQuestionsComplete ==
    [][ \A self \in DOMAIN proc :
            (proc[self].pc \in {"save", "persist"} /\ proc[self].questions = <<>>
                /\ proc'[self].pc # proc[self].pc) =>
                /\ proc'[self].pc = "complete"
                /\ UNCHANGED <<questions, review_queue>>
      ]_vars

\* C14: an extraction result without questions (an empty list, or only
\* records that validation drops) makes the extraction stage raise: no run
\* goes on past extraction with an empty question list.
C14_EmptyExtractionFails ==
    \A self \in DOMAIN proc :
        proc[self].pc \in {"classify", "dedup", "persist", "complete"} =>
            proc[self].questions # <<>>

\* the Question row a ReviewQueue row points to
QuestionOfReview(j) ==
    CHOOSE i \in 1 .. Len(questions) :
        questions[i].question_id = review_queue[j].question_id

\* C15: the review entry of every persisted question is chosen in this
\* order: no unit gives AMBIGUOUS_UNIT with priority 1, whatever the
\* confidence; otherwise a confidence strictly below 0.7 gives
\* LOW_CONFIDENCE with priority 2; otherwise, exactly 0.7 included,
\* NEEDS_REVIEW with priority 3.
C15_ReviewRouting ==
    \A j \in 1 .. Len(review_queue) :
        LET q == questions[QuestionOfReview(j)]
            r == review_queue[j]
        IN
        /\ q.unit_id = NULL =>
              (r.issue_type = "AMBIGUOUS_UNIT" /\ r.priority = 1)
        /\ (q.unit_id # NULL /\ q.classification_confidence < 70) =>
              (r.issue_type = "LOW_CONFIDENCE" /\ r.priority = 2)
        /\ (q.unit_id # NULL /\ q.classification_confidence >= 70) =>
              (r.issue_type = "NEEDS_REVIEW" /\ r.priority = 3)

\* C15 witness: a question classified into a unit with confidence exactly
\* 0.7 and a question without unit but with confidence 1.0 are persisted
\* with their review entries.
C15_Witness ==
    /\ \E j \in 1 .. Len(review_queue) :
          /\ questions[QuestionOfReview(j)].unit_id # NULL
          /\ questions[QuestionOfReview(j)].classification_confidence = 70
    /\ \E j \in 1 .. Len(review_queue) :
          /\ questions[QuestionOfReview(j)].unit_id = NULL
          /\ questions[QuestionOfReview(j)].classification_confidence = 100

\* the ReviewQueue rows of one Question row
ReviewsOfQuestion(i) ==
    { j \in 1 .. Len(review_queue) :
        review_queue[j].question_id = questions[i].question_id }

CanonicalInvariant ==
    \A i \in 1 .. Len(questions) :
        LET q == questions[i] IN
        /\ q.is_canonical => q.parent_question_id = NULL
        /\ ~q.is_canonical =>
              /\ q.parent_question_id # NULL
              /\ \E k \in 1 .. Len(questions) :
                    /\ questions[k].question_id = q.parent_question_id
                    /\ questions[k].is_canonical
                    /\ questions[k].course_code = q.course_code

\* C17: in every state a non-canonical Question row has a parent that is an
\* existing canonical question of the same course and a canonical row has
\* no parent; and a row that is canonical never acquires a parent later.
C17_CanonicalParent ==
    /\ []CanonicalInvariant
    /\ [][ \A i \in 1 .. Len(questions) :
              questions[i].is_canonical =>
                  /\ i <= Len(questions')
                  /\ questions'[i].question_id = questions[i].question_id
                  /\ questions'[i].parent_question_id = NULL ]_vars

\* C17 witness: a completed paper with two Question rows, both canonical
\* and without parent.
C17_Witness ==
    \E p \in Papers :
        /\ StatusOf(p) = COMPLETED
        /\ NumQuestions(p) = 2
        /\ \A i \in QuestionsOf(p) :
              questions[i].is_canonical /\ questions[i].parent_question_id = NULL

\* two Question rows of different papers of one course with the same text,
\* the first persisted before the second
Restatements ==
    { pair \in (1 .. Len(questions)) \X (1 .. Len(questions)) :
        /\ pair[1] < pair[2]
        /\ questions[pair[1]].paper_id # questions[pair[2]].paper_id
        /\ questions[pair[1]].course_code = questions[pair[2]].course_code
        /\ questions[pair[1]].question_text = questions[pair[2]].question_text }

\* C18 as stated: a question of a second paper that restates verbatim a
\* canonical question of an earlier paper of the same course is persisted
\* as non-canonical, with that question as parent and a similarity score of
\* at least 0.85.
C18_RestatementIsVariant ==
    \A pair \in Restatements :
        questions[pair[1]].is_canonical =>
            /\ ~questions[pair[2]].is_canonical
            /\ questions[pair[2]].parent_question_id = questions[pair[1]].question_id
            /\ questions[pair[2]].similarity_score # NULL
            /\ questions[pair[2]].similarity_score >= 85

\* C18 amended: the pipeline applies the simplified policy: a question of
\* a second paper that restates verbatim a question of an earlier paper of
\* the same course is persisted like any other, canonical, without parent
\* and without similarity score, and the earlier question is left as it was.
C18_RestatementIsCanonical ==
    \A pair \in Restatements :
        /\ questions[pair[2]].is_canonical
        /\ questions[pair[2]].parent_question_id = NULL
        /\ questions[pair[2]].similarity_score = NULL
        /\ questions[pair[1]].is_canonical
        /\ questions[pair[1]].parent_question_id = NULL

\* C18 witness: two papers of one course are completed and a question of
\* the second restates a question of the first that was persisted before it.
C18_Witness ==
    /\ Restatements # {}
    /\ \A u \in Uploads : StatusOf(u) = COMPLETED
    /\ \E pair \in Restatements :
          /\ questions[pair[1]].paper_id = 1
          /\ questions[pair[2]].paper_id = 2

\* C19: no two QuestionPaper rows of question papers submitted with exam
\* type and exam date have the same course (letter case disregarded), exam
\* type and exam date.
C19_NoDuplicatePapers ==
    \A p, q \in DOMAIN paper :
        (/\ p # q
         /\ StatusOf(p) # NO_ROW
         /\ StatusOf(q) # NO_ROW
         /\ proc[<<"sync", p>>].file_type = "question_paper"
         /\ proc[<<"sync", q>>].file_type = "question_paper"
         /\ paper[p].exam_date # NULL
         /\ paper[q].exam_date # NULL) =>
            ~ (/\ Upper(paper[p].course_code) = Upper(paper[q].course_code)
               /\ paper[p].exam_type = paper[q].exam_type
               /\ paper[p].exam_date = paper[q].exam_date)

\* the question numbers of a sequence of records or rows
NumbersOf(rows) == [ i \in 1 .. Len(rows) |-> rows[i].question_number ]

\* C20: the Question rows of a paper are written in the order the
\* extraction emitted the questions, and get_paper_questions returns them
\* in that same order, whatever the labels are.
C20_ReadBackKeepsExtractionOrder ==
    \A self \in DOMAIN proc :
        proc[self].pc = "complete" =>
            LET p == proc[self].paper_id
                extracted == NumbersOf(proc[self].questions)
            IN
            /\ NumbersOf(SelectSeq(questions, LAMBDA row : row.paper_id = p)) = extracted
            /\ NumbersOf(get_paper_questions(p)) = extracted

\* ------------------------------------------------------------------------
\* Progress checkpoints
\* ------------------------------------------------------------------------
\* a run that has set its paper to PROCESSING and has not ended
Started(self) == proc[self].pc \notin {"idle", "created", "queued", "done"}

\* the checkpoint that precedes each stage: 10 conversion, 30 extraction,
\* 50 classification, 70 duplicate detection, 90 persistence
StageCheckpoint ==
    [ stage \in {"convert", "extract", "classify", "dedup", "persist"} |->
        CASE stage = "convert" -> 10
          [] stage = "extract" -> 30
          [] stage = "classify" -> 50
          [] stage = "dedup" -> 70
          [] stage = "persist" -> 90 ]

\* C21: while the one run of a paper is inside a stage, the progress read
\* from the paper row is the checkpoint of that stage (10, 30, 50, 70, 90
\* for conversion, extraction, classification, duplicate detection,
\* persistence), set before the stage started.
C21_ProgressCheckpoints ==
    \A self \in Procs :
        LET p == proc[self].paper_id IN
        (/\ proc[self].pc \in DOMAIN StageCheckpoint
         /\ \A other \in Procs : (Started(other) /\ proc[other].paper_id = p) => other = self
         /\ StatusOf(p) = PROCESSING) =>
            get_processing_status(p).progress = StageCheckpoint[proc[self].pc]

\* ------------------------------------------------------------------------
\* The unit classifiers on their own: LLM, TF-IDF and enhanced TF-IDF
\* ------------------------------------------------------------------------
ClassifierRuns == {"llm", "tfidf", "enhanced"} \X {1}

\* cosine similarities between the question and one unit, in hundredths
Similarities == {0, 29, 30, 31, 100}

\* max_similarity > 0.3 (classification_service.py line 88,
\* enhanced_classification_service.py lines 172-173)
SimilarityCutoff == 30

\* the units a syllabus document may list
SyllabusUnits ==
    << [ unit_id |-> "U1", name |-> "Unit 1" ],
       [ unit_id |-> "U2", name |-> "Unit 2" ] >>

\* what syllabus_documents.find_one gives the TF-IDF classifiers: no
\* document (the empty sequence), a document without "units", one whose
\* unit list is empty, or one with units
SyllabusDocuments ==
    { <<>>, << [ course_code |-> "CS301" ] >> } \cup
    { << [ course_code |-> "CS301", units |-> SubSeq(SyllabusUnits, 1, k) ] >> :
        k \in 0 .. Len(SyllabusUnits) }

\* the number of unit texts the corpus gets besides the question
NumUnitTexts(syllabus_data) ==
    IF Len(syllabus_data) = 0 \/ "units" \notin DOMAIN syllabus_data[1] THEN 0
    ELSE Len(syllabus_data[1].units)

\* np.max and np.argmax (the first index of the maximum) of a non-empty row
NpMax(similarities) ==
    CHOOSE m \in { similarities[i] : i \in 1 .. Len(similarities) } :
        \A i \in 1 .. Len(similarities) : similarities[i] <= m

NpArgMax(similarities) ==
    CHOOSE i \in 1 .. Len(similarities) :
        /\ similarities[i] = NpMax(similarities)
        /\ \A j \in 1 .. i - 1 : similarities[j] # NpMax(similarities)

\* a similarity equal to the cutoff is accepted as well
AboveCutoffInclusive(max_similarity) == max_similarity >= SimilarityCutoff

\* the acceptance test of both TF-IDF classifiers
AboveCutoff(max_similarity) == max_similarity > SimilarityCutoff

UnitResult(unit_id, confidence) ==
    [ raised |-> FALSE, unit_id |-> unit_id, confidence |-> confidence ]

UnitRaised == [ raised |-> TRUE, unit_id |-> NULL, confidence |-> 0 ]

\* lines 82-93 of classify_unit, 165-177 of classify_question_to_unit: the
\* best unit is taken when its similarity is above the cutoff
BestUnit(units, similarities) ==
    LET max_similarity == NpMax(similarities)
        best_unit_idx == NpArgMax(similarities)
    IN
    IF AboveCutoff(max_similarity)
    THEN UnitResult(units[best_unit_idx].unit_id, max_similarity)
    ELSE UnitResult(NULL, max_similarity)

\* ClassificationService.classify_unit.  Without a document or without the
\* key "units" it returns (None, 0.0).  Otherwise the corpus is vectorized,
\* which raises ValueError when no term is left (vectorizer_ok is FALSE),
\* and the similarities of the question to the unit texts are computed:
\* with an empty unit list the matrix of unit texts has no row, and
\* cosine_similarity (or np.max of the empty result) raises ValueError.
\* Nothing in classify_unit catches either.
classify_unit(syllabus_data, similarities, vectorizer_ok) ==
    IF Len(syllabus_data) = 0 \/ "units" \notin DOMAIN syllabus_data[1]
    THEN UnitResult(NULL, 0)
    ELSE IF ~vectorizer_ok \/ Len(syllabus_data[1].units) = 0
    THEN UnitRaised
    ELSE BestUnit(syllabus_data[1].units, similarities)

\* EnhancedClassificationService.classify_question_to_unit: the same, but
\* the computation is inside try/except, which answers (None, 0.0)
classify_question_to_unit(syllabus_data, similarities, vectorizer_ok) ==
    IF Len(syllabus_data) = 0 \/ "units" \notin DOMAIN syllabus_data[1]
    THEN UnitResult(NULL, 0)
    ELSE IF ~vectorizer_ok \/ Len(syllabus_data[1].units) = 0
    THEN UnitResult(NULL, 0)
    ELSE BestUnit(syllabus_data[1].units, similarities)

\* a classifier that has not been called yet
ReadyClassifier ==
    [ pc |-> "ready", exc |-> "", questions |-> <<>>,
      result |-> UnitResult(NULL, 0) ]

\* One question text and one database: the syllabus document, the
\* similarities of the question to its units, whether the vectorizer finds
\* a term, and the CourseUnit rows the LLM classifier loads.
ClassifierInit ==
    /\ temp = {}
    /\ paper = [ p \in Papers |-> NoPaper ]
    /\ questions = <<>>
    /\ review_queue = <<>>
    /\ \E syllabus_data \in SyllabusDocuments, vectorizer_ok \in BOOLEAN,
          unit_rows \in SUBSET CourseUnitRows :
         \E similarities \in [ 1 .. NumUnitTexts(syllabus_data) -> Similarities ] :
            proc = [ self \in ClassifierRuns |->
                       [ syllabus_data |-> syllabus_data,
                         similarities |-> similarities,
                         vectorizer_ok |-> vectorizer_ok,
                         unit_rows |-> unit_rows ] @@ ReadyClassifier ]

\* the outcome of a call of one of the TF-IDF classifiers
Returned(self, result) ==
    /\ IF result.raised
       THEN Raise(self, "ValueError")
       ELSE proc' = [ proc EXCEPT ![self].pc = "done", ![self].result = result ]
    /\ UNCHANGED <<temp, paper, questions, review_queue>>

\* classify_unit is called for the question, a first time or again
TfidfClassify(self) ==
    /\ self[1] = "tfidf"
    /\ proc[self].pc \in {"ready", "done"}
    /\ Returned(self, classify_unit(proc[self].syllabus_data,
                                    proc[self].similarities,
                                    proc[self].vectorizer_ok))

\* classify_question_to_unit is called for the question
EnhancedClassify(self) ==
    /\ self[1] = "enhanced"
    /\ proc[self].pc \in {"ready", "done"}
    /\ Returned(self, classify_question_to_unit(proc[self].syllabus_data,
                                               proc[self].similarities,
                                               proc[self].vectorizer_ok))

\* classify_questions_with_llm is called for the questions of a document;
\* with a syllabus the service answers or the call raises
LLMClassify(self) ==
    /\ self[1] = "llm"
    /\ proc[self].pc = "ready"
    /\ \/ \E c \in [ 1 .. MaxQ -> LLMEntries ] :
            proc' = [ proc EXCEPT ![self].pc = "done",
                        ![self].questions =
                            classify_questions_with_llm(
                                ExtractedQuestions(MaxQ), "CS301",
                                proc[self].unit_rows, c) ]
       \/ /\ load_syllabus("CS301", proc[self].unit_rows) # {}
          /\ Raise(self, "LLM classification failed")
    /\ UNCHANGED <<temp, paper, questions, review_queue>>

ClassifierNext ==
    \/ \E self \in ClassifierRuns : TfidfClassify(self)
    \/ \E self \in ClassifierRuns : EnhancedClassify(self)
    \/ \E self \in ClassifierRuns : LLMClassify(self)

ClassifierSpec == ClassifierInit /\ [][ClassifierNext]_vars

\* the course has no syllabus units configured, as the TF-IDF classifiers
\* see it: no document, no unit list, or an empty unit list
NoUnitsConfigured(syllabus_data) == NumUnitTexts(syllabus_data) = 0

\* C22: when the course has no syllabus units configured (no unit rows, no
\* active unit rows, or a syllabus whose unit list is empty), every
\* classifier variant that was called has returned, without raising, no
\* unit and confidence 0.0 for the question.
C22_NoUnitsNeverErrors ==
    \A self \in ClassifierRuns :
        proc[self].pc # "ready" =>
            IF self[1] = "llm"
            THEN load_syllabus("CS301", proc[self].unit_rows) = {} =>
                    /\ proc[self].pc = "done"
                    /\ \A i \in 1 .. Len(proc[self].questions) :
                         /\ proc[self].questions[i].unit_id = NULL
                         /\ proc[self].questions[i].classification_confidence = 0
            ELSE NoUnitsConfigured(proc[self].syllabus_data) =>
                    /\ proc[self].pc = "done"
                    /\ proc[self].result = UnitResult(NULL, 0)

\* the similarity of the question to the units was computed
SimilarityComputed(self) ==
    /\ self[1] \in {"tfidf", "enhanced"}
    /\ proc[self].pc = "done"
    /\ proc[self].vectorizer_ok
    /\ NumUnitTexts(proc[self].syllabus_data) > 0

\* C24: in both similarity classifiers a unit is assigned if and only if
\* the best unit similarity is strictly greater than 0.3, and it is the
\* first unit that has the best similarity; at 0.3 or below the unit is
\* null; the confidence returned is the best similarity; and calling the
\* classifier again for the same question and units changes nothing.
C24_StrictCutoff ==
    /\ [] \A self \in ClassifierRuns :
            SimilarityComputed(self) =>
                LET similarities == proc[self].similarities
                    units == proc[self].syllabus_data[1].units
                    best == CHOOSE i \in 1 .. Len(similarities) :
                                /\ \A j \in 1 .. Len(similarities) :
                                      similarities[j] <= similarities[i]
                                /\ \A j \in 1 .. i - 1 :
                                      similarities[j] < similarities[i]
                    result == proc[self].result
                IN
                /\ ~ result.raised
                /\ result.confidence = similarities[best]
                /\ IF similarities[best] > 30
                   THEN result.unit_id = units[best].unit_id
                   ELSE result.unit_id = NULL
    /\ [][ \A self \in ClassifierRuns :
              (self[1] \in {"tfidf", "enhanced"} /\ proc[self].pc = "done") =>
                  proc'[self] = proc[self] ]_vars

\* C24 witness: both classifiers have answered for a question whose
\* similarity to each of two units is exactly 0.3, with no unit and
\* confidence 0.3.
C24_Witness ==
    \A self \in {<<"tfidf", 1>>, <<"enhanced", 1>>} :
        /\ SimilarityComputed(self)
        /\ proc[self].similarities = <<30, 30>>
        /\ proc[self].result = UnitResult(NULL, 30)

\* ------------------------------------------------------------------------
\* File conversion: services/file_conversion_service.py
\* ------------------------------------------------------------------------
\* largest number of page images (or embedded images) of a document
MaxPages == 12

\* prepare_for_llm(conversion_result, max_images=10)
max_images == 10

ConversionRun == <<"sync", 1>>

\* the entries of result['images']: page i gives the image of page i
PageImages(n) == [ i \in 1 .. n |-> [ page_number |-> i, format |-> "png" ] ]

\* convert_pdf_to_text_and_images: one image per page, page_count is their
\* number
convert_pdf_to_text_and_images(num_pages, text) ==
    [ text |-> text, images |-> PageImages(num_pages),
      file_type |-> "pdf", page_count |-> num_pages ]

\* convert_docx_to_text_and_images: one image per embedded image, numbered
\* as they are found; page_count is 1 whatever their number (line 191)
convert_docx_to_text_and_images(num_images, text) ==
    [ text |-> text, images |-> PageImages(num_images),
      file_type |-> "docx", page_count |-> 1 ]

\* convert_file: by the extension of the file
convert_file(file_type, num_images, text) ==
    IF file_type = "pdf"
    THEN convert_pdf_to_text_and_images(num_images, text)
    ELSE convert_docx_to_text_and_images(num_images, text)

\* images[:max_images]
FirstImages(images) ==
    SubSeq(images, 1, IF Len(images) < max_images THEN Len(images) ELSE max_images)

\* FileConversionService.prepare_for_llm: the text item when there is text,
\* then one image_url item per image kept; page_count is copied
prepare_for_llm(conversion_result) ==
    LET images == FirstImages(conversion_result.images) IN
    [ text |-> conversion_result.text,
      content |->
          (IF conversion_result.text # ""
           THEN << [ type |-> "text", page_number |-> 0 ] >> ELSE <<>>)
          \o [ i \in 1 .. Len(images) |->
                 [ type |-> "image_url", page_number |-> images[i].page_number ] ],
      page_count |-> conversion_result.page_count,
      has_images |-> Len(images) > 0 ]

\* a run of paper 1 is about to convert its file: a PDF or DOCX with or
\* without text and with up to MaxPages images
ConversionInit ==
    /\ temp = {}
    /\ paper = [ p \in Papers |->
                   IF p = 1
                   THEN [ processing_status |-> PROCESSING,
                          processing_progress |-> 10 ]
                        @@ PaperRow(SingleRequest("question_paper", TRUE))
                   ELSE NoPaper ]
    /\ questions = <<>>
    /\ review_queue = <<>>
    /\ \E file_type \in {"pdf", "docx"}, num_images \in 0 .. MaxPages,
          text \in {"", "text"} :
         proc = [ self \in {ConversionRun} |->
                    [ file_type |-> file_type, num_images |-> num_images,
                      text |-> text ]
                    @@ [ IdleProc EXCEPT !.pc = "convert", !.paper_id = 1 ] ]

\* convert_file_for_llm, lines 139-140: the file is converted, or the
\* conversion raises
ConvertFile(self) ==
    /\ proc[self].pc = "convert"
    /\ \/ proc' = [ proc EXCEPT ![self] =
                     [ conversion_result |->
                         convert_file(@.file_type, @.num_images, @.text) ]
                     @@ [ @ EXCEPT !.pc = "prepare" ] ]
       \/ Raise(self, "File conversion failed")
    /\ UNCHANGED <<temp, paper, questions, review_queue>>

\* convert_file_for_llm, lines 142-145, and the checkpoint of the caller
PrepareForLLM(self) ==
    /\ proc[self].pc = "prepare"
    /\ proc' = [ proc EXCEPT ![self] =
                  [ llm_content |-> prepare_for_llm(@.conversion_result) ]
                  @@ [ @ EXCEPT !.pc = "extract" ] ]
    /\ Checkpoint(self, 30)
    /\ UNCHANGED <<temp, questions, review_queue>>

ConversionNext ==
    \/ ConvertFile(ConversionRun)
    \/ PrepareForLLM(ConversionRun)
    \/ HandleException(ConversionRun)

ConversionSpec == ConversionInit /\ [][ConversionNext]_vars

\* the page numbers of the images a content array carries, in its order
ImagesSent(llm_content) ==
    LET items == SelectSeq(llm_content.content,
                           LAMBDA item : item.type = "image_url")
    IN [ i \in 1 .. Len(items) |-> items[i].page_number ]

\* C25: for a converted document with n page images the prepared content
\* carries exactly the first min(n, 10) images in page order, and whenever
\* n exceeds the cap the result reports page_count = n, so that the caller
\* can tell how many images exist and how many were included.
C25_PageCap ==
    \A self \in DOMAIN proc :
        proc[self].pc = "extract" =>
            LET n == proc[self].num_images
                sent == ImagesSent(proc[self].llm_content)
            IN
            /\ sent = [ i \in 1 .. (IF n < 10 THEN n ELSE 10) |-> i ]
            /\ n > 10 => proc[self].llm_content.page_count = n

\* ------------------------------------------------------------------------
\* Bloom level and category of an extracted question
\* ------------------------------------------------------------------------
\* An optional integer is a sequence: empty for None, else the one value.

\* the levels the extraction service may put into a record
RawBloomLevels == 0 .. 7

\* the categories it may put into a record, and str.lower() of each
RawBloomCategories ==
    {"", "Remembering", "understand", "APPLYING", "Creating", "Hard"}

Lower(category) ==
    CASE category = "Remembering" -> "remembering"
      [] category = "APPLYING" -> "applying"
      [] category = "Creating" -> "creating"
      [] category = "Hard" -> "hard"
      [] OTHER -> category

\* bloom_map of _parse_bloom_category, lines 201-214
bloom_map ==
    [ name \in {"remembering", "remember", "understanding", "understand",
                "applying", "apply", "analyzing", "analyze",
                "evaluating", "evaluate", "creating", "create"} |->
        CASE name \in {"remembering", "remember"} -> "Remembering"
          [] name \in {"understanding", "understand"} -> "Understanding"
          [] name \in {"applying", "apply"} -> "Applying"
          [] name \in {"analyzing", "analyze"} -> "Analyzing"
          [] name \in {"evaluating", "evaluate"} -> "Evaluating"
          [] name \in {"creating", "create"} -> "Creating" ]

\* level_to_category, lines 220-227
level_to_category ==
    <<"Remembering", "Understanding", "Applying", "Analyzing", "Evaluating",
      "Creating">>

\* question.get(key) for an integer value
GetInt(question, key) ==
    IF key \in DOMAIN question THEN << question[key] >> ELSE <<>>

\* LLMExtractionService._parse_bloom_level: the level when it is 1..6
parse_bloom_level(level) ==
    IF level # <<>> /\ 1 <= level[1] /\ level[1] <= 6 THEN level ELSE <<>>

\* LLMExtractionService._parse_bloom_category: a category the map knows is
\* taken as it is named; only otherwise the level, as the service gave it,
\* decides (0 is falsy, a level outside the table gives None)
parse_bloom_category(category, level) ==
    IF category \notin {NULL, ""} /\ Lower(category) \in DOMAIN bloom_map
    THEN bloom_map[Lower(category)]
    ELSE IF level # <<>> /\ level[1] # 0 /\ level[1] \in DOMAIN level_to_category
    THEN level_to_category[level[1]]
    ELSE NULL

\* LLMExtractionService._validate_question for a record that has number and
\* text, lines 156-163
validate_question(question) ==
    [ question_number |-> question.question_number,
      question_text |-> question.question_text,
      bloom_taxonomy_level |->
          parse_bloom_level(GetInt(question, "bloom_taxonomy_level")),
      bloom_category |->
          parse_bloom_category(Get(question, "bloom_category", NULL),
                               GetInt(question, "bloom_taxonomy_level")) ]

\* the records an answer may hold for question i
BloomRecords(i, kind) ==
    { levelled @@ categorised @@ LLMRecord(i, kind) :
        levelled \in { NoEntry } \cup
            { [ bloom_taxonomy_level |-> level ] : level \in RawBloomLevels },
        categorised \in { NoEntry } \cup
            { [ bloom_category |-> category ] : category \in RawBloomCategories } }

BloomRun == <<"sync", 1>>

\* a run of paper 1 is about to ask the extraction service, whose answer
\* will hold one record
BloomInit ==
    /\ temp = {}
    /\ paper = [ p \in Papers |->
                   IF p = 1
                   THEN [ processing_status |-> PROCESSING,
                          processing_progress |-> 30 ]
                        @@ PaperRow(SingleRequest("question_paper", TRUE))
                   ELSE NoPaper ]
    /\ questions = <<>>
    /\ review_queue = <<>>
    /\ \E kind \in RecordKinds : \E record \in BloomRecords(1, kind) :
         proc = [ self \in {BloomRun} |->
                    [ answer |-> << record >> ]
                    @@ [ IdleProc EXCEPT !.pc = "extract", !.paper_id = 1 ] ]

\* extract_questions_with_llm: the records that pass validation are
\* returned validated, or the call raises
ExtractValidated(self) ==
    /\ proc[self].pc = "extract"
    /\ \/ /\ Checkpoint(self, 50)
          /\ proc' = [ proc EXCEPT ![self].pc = "classify",
                        ![self].questions =
                            LET valid == ParseLLMResponse(proc[self].answer) IN
                            [ i \in 1 .. Len(valid) |-> validate_question(valid[i]) ] ]
       \/ /\ Raise(self, "LLM extraction failed")
          /\ UNCHANGED paper
    /\ UNCHANGED <<temp, questions, review_queue>>

BloomNext ==
    \/ ExtractValidated(BloomRun)
    \/ HandleException(BloomRun)

BloomSpec == BloomInit /\ [][BloomNext]_vars

\* the label of each Bloom level
BloomLabel ==
    <<"Remembering", "Understanding", "Applying", "Analyzing", "Evaluating",
      "Creating">>

\* C26: every question record the extractor emits has a Bloom level that is
\* null or in 1..6, and when both level and category are set the category
\* is the label of that level.
C26_BloomLabelMatchesLevel ==
    \A self \in DOMAIN proc :
        proc[self].pc = "classify" =>
            \A i \in 1 .. Len(proc[self].questions) :
                LET level == proc[self].questions[i].bloom_taxonomy_level
                    category == proc[self].questions[i].bloom_category
                IN
                /\ level = <<>> \/ level[1] \in 1 .. 6
                /\ (level # <<>> /\ category # NULL) =>
                       category = BloomLabel[level[1]]

\* C27: retry_processing on a paper whose status is not METADATA_PENDING
\* (UPLOADED, PROCESSING, COMPLETED or FAILED) is refused: it cannot queue a
\* task, and the step it takes leaves the paper row, the Question rows, the
\* ReviewQueue rows and the runs as they were.
C27_RetryRefusedChangesNothing ==
    /\ [] \A p \in Papers :
            StatusOf(p) \in ProcessingStatus \ {METADATA_PENDING} =>
                /\ ~ ENABLED RetryQueues(p)
                /\ ENABLED RetryRefused(p)
    /\ [][ \A p \in Papers :
              (/\ StatusOf(p) \in ProcessingStatus \ {METADATA_PENDING}
               /\ RetryProcessing(p)) =>
                  /\ UNCHANGED <<paper, questions, review_queue>>
                  /\ \A t \in Tasks : proc'[<<"celery", t>>] = proc[<<"celery", t>>]
         ]_vars

\* C27 witness: a COMPLETED paper has Question and ReviewQueue rows, a
\* worker slot is free, and the retry request is refused.
C27_Witness ==
    \E p \in Papers :
        /\ StatusOf(p) = COMPLETED
        /\ QuestionsOf(p) # {}
        /\ ReviewsOf(p) # {}
        /\ IdleTasks # {}
        /\ ENABLED RetryRefused(p)
        /\ ~ ENABLED RetryQueues(p)

\* C28: a submit_metadata call that creates no paper row (unknown upload
\* id, duplicate paper, question paper without exam type) leaves the
\* system unchanged: the uploaded file is still at its temporary location,
\* so the same upload can be submitted again.
C28_RejectedSubmitKeepsUpload ==
    [][ \A u \in Papers :
           (/\ u \in temp
            /\ StatusOf(u) = NO_ROW
            /\ StatusOf(u)' = NO_ROW) =>
               u \in temp'
      ]_vars

\* ------------------------------------------------------------------------
\* The review workflow: approve_question, approve_question_direct,
\* update_question (api/admin.py)
\* ------------------------------------------------------------------------
\* the question ids a request may name
QuestionIds == 1 .. MaxQ

\* db.query(Question).filter(question_id == ...).first()
QuestionIndex(question_id) ==
    { i \in 1 .. Len(questions) : questions[i].question_id = question_id }

\* db.query(ReviewQueue).filter(question_id == ...).first(): the entry of
\* the question with the smallest key, if there is one
FirstReviewEntry(question_id) ==
    LET entries == { j \in 1 .. Len(review_queue) :
                       review_queue[j].question_id = question_id }
    IN { j \in entries : \A k \in entries : j <= k }

\* the entry approve_question creates when the question has none
CreatedReviewEntry(question_id, status) ==
    [ question_id |-> question_id, issue_type |-> "NEEDS_REVIEW",
      status |-> status, priority |-> 3 ]

\* lines 841-855 and 862-876: the first entry of the question gets the
\* status, or an entry with it is created
ResolveReviewEntry(question_id, status) ==
    IF FirstReviewEntry(question_id) = {}
    THEN review_queue' = Append(review_queue, CreatedReviewEntry(question_id, status))
    ELSE review_queue' =
             [ j \in 1 .. Len(review_queue) |->
                 IF j \in FirstReviewEntry(question_id)
                 THEN [ review_queue[j] EXCEPT !.status = status ]
                 ELSE review_queue[j] ]

\* approve_question: 404 without the question; an approval may correct the
\* unit, marks the question reviewed and APPROVED and its entry APPROVED; a
\* rejection marks the question reviewed and NEEDS_REVIEW and its entry
\* CORRECTED.  The paper row is not touched.
approve_question(question_id, approved, unit_id) ==
    IF QuestionIndex(question_id) = {}
    THEN UNCHANGED vars
    ELSE /\ questions' =
              [ i \in 1 .. Len(questions) |->
                  IF i \notin QuestionIndex(question_id) THEN questions[i]
                  ELSE IF approved
                  THEN [ questions[i] EXCEPT
                           !.unit_id = IF unit_id # NULL THEN unit_id ELSE @,
                           !.is_reviewed = TRUE,
                           !.review_status = "APPROVED" ]
                  ELSE [ questions[i] EXCEPT
                           !.is_reviewed = TRUE,
                           !.review_status = "NEEDS_REVIEW" ] ]
         /\ ResolveReviewEntry(question_id,
                               IF approved THEN "APPROVED" ELSE "CORRECTED")
         /\ UNCHANGED <<temp, paper, proc>>

\* approve_question_direct: the question is marked reviewed and APPROVED
\* and its entry, if it has one, APPROVED
approve_question_direct(question_id) ==
    IF QuestionIndex(question_id) = {}
    THEN UNCHANGED vars
    ELSE /\ questions' =
              [ i \in 1 .. Len(questions) |->
                  IF i \notin QuestionIndex(question_id) THEN questions[i]
                  ELSE [ questions[i] EXCEPT
                           !.is_reviewed = TRUE,
                           !.review_status = "APPROVED" ] ]
         /\ IF FirstReviewEntry(question_id) = {}
            THEN UNCHANGED review_queue
            ELSE ResolveReviewEntry(question_id, "APPROVED")
         /\ UNCHANGED <<temp, paper, proc>>

\* update_question: the fields given are written; neither the review
\* status of the question nor its entry is changed
update_question(question_id, unit_id) ==
    IF QuestionIndex(question_id) = {}
    THEN UNCHANGED vars
    ELSE /\ questions' =
              [ i \in 1 .. Len(questions) |->
                  IF i \notin QuestionIndex(question_id) THEN questions[i]
                  ELSE [ questions[i] EXCEPT
                           !.unit_id = IF unit_id # NULL THEN unit_id ELSE @ ] ]
         /\ UNCHANGED <<temp, paper, review_queue, proc>>

\* the run of RoutingInit, and the administrator reviewing what is stored
ReviewNext ==
    \/ RoutingNext
    \/ \E question_id \in QuestionIds, approved \in BOOLEAN,
          unit_id \in RoutingUnits :
            approve_question(question_id, approved, unit_id)
    \/ \E question_id \in QuestionIds : approve_question_direct(question_id)
    \/ \E question_id \in QuestionIds, unit_id \in RoutingUnits :
            update_question(question_id, unit_id)

ReviewSpec == RoutingInit /\ [][ReviewNext]_vars

\* the ReviewQueue entries of paper p that are PENDING
PendingReviews(p) == { j \in ReviewsOf(p) : review_queue[j].status = "PENDING" }

\* C29: once a paper's run has completed, questions_in_review equals the
\* number of the paper's ReviewQueue entries that are PENDING, also after
\* approve_question, approve_question_direct and update_question calls.
C29_ReviewCountMatchesPending ==
    \A p \in Papers :
        StatusOf(p) = COMPLETED =>
            paper[p].questions_in_review = Cardinality(PendingReviews(p))

\* ------------------------------------------------------------------------
\* The LLM classification step on the answers the service can give
\* ------------------------------------------------------------------------
\* the entries of an answer: units of the course and others, tags that are
\* topics of the unit and tags that are not, entries without tags
TaggedEntries ==
    { [ unit_id |-> "U1", topic_tags |-> <<"Sorting", "Trees">>, confidence |-> 90 ],
      [ unit_id |-> "U1", topic_tags |-> <<"Graphs", "sorting", "Sorting">>,
        confidence |-> 50 ],
      [ unit_id |-> "U1", confidence |-> 90 ],
      [ unit_id |-> "U2", topic_tags |-> <<"Hashing">>, confidence |-> 90 ],
      [ unit_id |-> "U3", topic_tags |-> <<"Sorting">>, confidence |-> 90 ],
      [ unit_id |-> NULL, topic_tags |-> <<"Sorting">>, confidence |-> 40 ] }

\* _parse_classification_response: the answer as a dict from the position
\* of a question to its entry; a question may have no entry
ClassificationAnswers(n) ==
    UNION { [ answered -> TaggedEntries ] : answered \in SUBSET (1 .. n) }

\* a run of paper 1 has extracted at most MaxQ questions and is about to
\* classify them (progress 50 is committed)
TaggingInit ==
    /\ temp = {}
    /\ paper = [ p \in Papers |->
                   IF p = 1
                   THEN [ processing_status |-> PROCESSING,
                          processing_progress |-> 50 ]
                        @@ PaperRow(SingleRequest("question_paper", TRUE))
                   ELSE NoPaper ]
    /\ questions = <<>>
    /\ review_queue = <<>>
    /\ \E n \in 0 .. MaxQ :
         proc = [ self \in Procs |->
                    IF self = RoutingRun
                    THEN [ classifications |-> NoEntry ]
                         @@ [ IdleProc EXCEPT
                                !.pc = "classify", !.paper_id = 1,
                                !.file_type = "question_paper",
                                !.questions = ExtractedQuestions(n) ]
                    ELSE [ classifications |-> NoEntry ] @@ IdleProc ]

\* classify_questions_with_llm as in Classify, on these answers; the answer
\* is kept beside the classified list
ClassifyTagged(self) ==
    /\ proc[self].pc = "classify"
    /\ \/ \E c \in ClassificationAnswers(Len(proc[self].questions)) :
            /\ Checkpoint(self, 70)
            /\ proc' = [ proc EXCEPT ![self].pc = "dedup",
                           ![self].classifications = c,
                           ![self].questions =
                               classify_questions_with_llm(
                                   @, paper[proc[self].paper_id].course_code,
                                   CourseUnitRows, c) ]
       \/ /\ Raise(self, "LLM classification failed")
          /\ UNCHANGED paper
    /\ UNCHANGED <<temp, questions, review_queue>>

TaggingNext ==
    \/ ClassifyTagged(RoutingRun)
    \/ Deduplicate(RoutingRun)
    \/ SaveQuestions(RoutingRun)
    \/ Complete(RoutingRun)
    \/ HandleException(RoutingRun)

TaggingSpec == TaggingInit /\ [][TaggingNext]_vars

\* the topic list of a unit, as a set
UnitTopics(unit_id) ==
    UNION { { row.topics[k] : k \in 1 .. Len(row.topics) } :
              row \in { r \in CourseUnitRows : r.unit_id = unit_id } }

\* the position of a question in its document
PositionOf(question_number) ==
    CHOOSE k \in 1 .. Len(QuestionNumbers) : QuestionNumbers[k] = question_number

\* the tags the service returned for the question at position k
ReturnedTags(self, k) ==
    IF k \in DOMAIN proc[self].classifications
       /\ "topic_tags" \in DOMAIN proc[self].classifications[k]
    THEN proc[self].classifications[k].topic_tags
    ELSE <<>>

\* the tag list a Question row stores (no JSON text is the empty list)
StoredTags(row) == IF row.topic_tags = <<>> THEN <<>> ELSE row.topic_tags[1]

\* C23: for every question the LLM variant classified, the tags, in the
\* classified record and in the stored Question row, are exactly the
\* returned tags that are topics of the assigned unit, in the returned
\* order; a question without unit has no tag.
C23_TopicTagsFiltered ==
    LET self == RoutingRun
        Expected(unit_id, k) ==
            IF unit_id = NULL THEN <<>>
            ELSE SelectSeq(ReturnedTags(self, k),
                           LAMBDA tag : tag \in UnitTopics(unit_id))
    IN
    /\ proc[self].pc \in {"dedup", "persist", "complete"} =>
          \A k \in 1 .. Len(proc[self].questions) :
              proc[self].questions[k].topic_tags =
                  Expected(proc[self].questions[k].unit_id, k)
    /\ \A i \in 1 .. Len(questions) :
          StoredTags(questions[i]) =
              Expected(questions[i].unit_id, PositionOf(questions[i].question_number))

\* C23 witness: the paper is completed and a stored question of unit U1
\* keeps "Sorting" of the returned tags "Sorting", "Trees".
C23_Witness ==
    /\ StatusOf(1) = COMPLETED
    /\ \E i \in 1 .. Len(questions) :
          /\ questions[i].unit_id = "U1"
          /\ ReturnedTags(RoutingRun, PositionOf(questions[i].question_number))
                 = <<"Sorting", "Trees">>
          /\ StoredTags(questions[i]) = <<"Sorting">>

\* the active units of the course of paper p, read from the CourseUnit rows
ActiveUnitsOfPaper(p) ==
    { row.unit_id : row \in { r \in CourseUnitRows :
                                /\ r.is_active
                                /\ r.course_code = Upper(paper[p].course_code) } }

\* the question at position k got no entry, or one that names no active
\* unit of the course
NoValidUnitReturned(classifications, k, p) ==
    \/ k \notin DOMAIN classifications
    \/ "unit_id" \notin DOMAIN classifications[k]
    \/ classifications[k].unit_id \notin ActiveUnitsOfPaper(p)

\* C30: the classification step returns the questions in the extracted
\* order and number; a question without entry, or whose entry names a unit
\* that is not an active unit of the course, gets no unit, confidence 0.0
\* and no topic tag, and is stored with an AMBIGUOUS_UNIT entry of
\* priority 1; every unit a Question row of the pipeline carries is an
\* active unit of the paper's course.
C30_UnknownUnitIsAmbiguous ==
    /\ [][ LET self == RoutingRun
               p == proc[self].paper_id
           IN
           (proc[self].pc = "classify" /\ proc'[self].pc = "dedup") =>
               /\ Len(proc'[self].questions) = Len(proc[self].questions)
               /\ NumbersOf(proc'[self].questions) = NumbersOf(proc[self].questions)
               /\ \A k \in 1 .. Len(proc[self].questions) :
                    NoValidUnitReturned(proc'[self].classifications, k, p) =>
                        /\ proc'[self].questions[k].unit_id = NULL
                        /\ proc'[self].questions[k].classification_confidence = 0
                        /\ proc'[self].questions[k].topic_tags = <<>>
         ]_vars
    /\ [] \A i \in 1 .. Len(questions) :
            LET p == questions[i].paper_id
                k == PositionOf(questions[i].question_number)
            IN
            /\ questions[i].unit_id # NULL =>
                   questions[i].unit_id \in ActiveUnitsOfPaper(p)
            /\ NoValidUnitReturned(proc[RoutingRun].classifications, k, p) =>
                   /\ questions[i].unit_id = NULL
                   /\ questions[i].classification_confidence = 0
                   /\ StoredTags(questions[i]) = <<>>
                   /\ \E j \in 1 .. Len(review_queue) :
                        /\ review_queue[j].question_id = questions[i].question_id
                        /\ review_queue[j].issue_type = "AMBIGUOUS_UNIT"
                        /\ review_queue[j].priority = 1

\* C30 witness: the paper is completed with two stored questions, one that
\* had no entry in the answer and one whose entry named the retired unit
\* U2; both rows have no unit.
C30_Witness ==
    /\ StatusOf(1) = COMPLETED
    /\ Len(questions) = 2
    /\ 1 \notin DOMAIN proc[RoutingRun].classifications
    /\ 2 \in DOMAIN proc[RoutingRun].classifications
    /\ proc[RoutingRun].classifications[2].unit_id = "U2"
    /\ \A i \in 1 .. 2 : questions[i].unit_id = NULL

====
